---- MODULE Spec2Model ----
(***************************************************************************)
(* Model of src/src/auth_utils.rs: load_creds, load_nk, sign_nonce and the *)
(* lazily initialised pattern USER_CONFIG_RE.                              *)
(*                                                                         *)
(* Text is a sequence of one-character strings.  The character classes of  *)
(* the regex crate (\s, \w, .) and of str::trim are modelled over a small  *)
(* alphabet that has a representative of every class the code separates.   *)
(***************************************************************************)
EXTENDS Integers, Sequences, FiniteSets, TLC

VARIABLES
    op,        \* the entry point the single sequential call runs
    pc,        \* position of the single sequential call
    contents,  \* `contents`: the text read from the file
    jwt,       \* `jwt`  (Option<SecureString>) in load_creds
    nkey,      \* `nkey` (Option<SecureString>) in load_creds
    lineNo,    \* position of the `for line in contents.lines()` loop of load_nk
    result,    \* the io::Result the call returned
    created,   \* SecureString buffers constructed so far during the call
    scrubbed,  \* SecureString buffers dropped (and so scrubbed) so far
    nonce,     \* `nonce` argument of sign_nonce
    key_pair,  \* `key_pair` argument of sign_nonce
    sig,       \* `sig`, the raw signature inside sign_nonce
    tpc,       \* per-thread position (concurrent callers)
    tcall,     \* per-thread call and its argument
    tre,       \* per-thread observation of the pattern cell when it was used
    tjwt,      \* per-thread `jwt`
    tres,      \* per-thread returned result
    re         \* the cell behind USER_CONFIG_RE: state, value, number of writes

seqVars  == <<op, pc, contents, jwt, nkey, lineNo, result, created, scrubbed>>
signVars == <<nonce, key_pair, sig>>
concVars == <<tpc, tcall, tre, tjwt, tres, re>>
vars     == <<op, pc, contents, jwt, nkey, lineNo, result, created, scrubbed,
              nonce, key_pair, sig, tpc, tcall, tre, tjwt, tres, re>>

----------------------------------------------------------------------------
(* Bounds of the model. *)

MaxSegs == 4
MaxNkLines == 3
MaxNonce == 2
NThreads == 2

----------------------------------------------------------------------------
(* Characters. *)

LF == "\n"
CR == "\r"
DASH == "-"

\* ASCII letters, digits and '_' that occur in the model's documents.
AsciiWordChars == {"S", "U", "A", "O", "a", "x", "e", "y", "_"}

\* A non-ASCII letter (e with acute accent, named by its code point): Unicode
\* class Alphabetic, so part of \w in the regex crate.
UnicodeWordChars == {"U+00E9"}

\* Unicode White_Space characters that occur in the model's documents.
WhiteSpaceChars == {" ", "\t", CR, LF}

\* \s of the regex crate (Unicode White_Space).
IsSpace(c) == c \in WhiteSpaceChars

\* \w of the regex crate: Unicode-aware by default.
IsWord(c) == c \in AsciiWordChars \cup UnicodeWordChars

\* The class [\w\-.=] of the capture group.
MutIsTokenCharWithSpace(c) == IsWord(c) \/ c \in {DASH, ".", "=", " "}

IsTokenChar(c) == IsWord(c) \/ c \in {DASH, ".", "="}

\* `.` of the regex crate: any character except \n.
IsDot(c) == c # LF

----------------------------------------------------------------------------
(* The regular expression of USER_CONFIG_RE, piece by piece.  Positions are *)
(* 1-based; a piece takes the position it starts at and yields the position *)
(* after its match, or 0 when it does not match there.                      *)

\* Greedy run of a class from position i: the position after the longest run.
RECURSIVE SpaceRunEnd(_, _)
SpaceRunEnd(s, i) ==
    IF i <= Len(s) /\ IsSpace(s[i]) THEN SpaceRunEnd(s, i + 1) ELSE i

RECURSIVE TokenRunEnd(_, _)
TokenRunEnd(s, i) ==
    IF i <= Len(s) /\ IsTokenChar(s[i]) THEN TokenRunEnd(s, i + 1) ELSE i

RECURSIVE DotRunEnd(_, _)
DotRunEnd(s, i) ==
    IF i <= Len(s) /\ IsDot(s[i]) THEN DotRunEnd(s, i + 1) ELSE i

AllDash(s, a, b) == \A k \in a..b : s[k] = DASH

\* The one element of a singleton set.  { F(x) : x \in {v} } evaluates v once
\* and hands its value to F: the way intermediate positions are passed on.
The(S) == CHOOSE x \in S : TRUE

\* [-]{3,}.*[-]{3,} between position i and position c (exclusive).
\* Backtracking the greedy first run and `.*` finds a split exactly when the
\* text opens with three dashes, closes with three dashes and holds six
\* characters or more.
DashedText(s, i, c) ==
    c - i >= 6 /\ AllDash(s, i, i + 2) /\ AllDash(s, c - 3, c - 1)

\* [-]{3,}.*[-]{3,}\r?\n  starting at i, where e is the position of the first
\* \n at or after i (no piece before the final \n can match \n).  The dashed
\* text ends right before \r?\n: at e, or at e-1 when s[e-1] is \r and \r?
\* takes it.
DelimClose(s, i, e) ==
    IF e > Len(s) THEN 0
    ELSE IF DashedText(s, i, e) THEN e + 1
    ELSE IF e - 1 >= i /\ s[e - 1] = CR /\ DashedText(s, i, e - 1) THEN e + 1
    ELSE 0

\* The pattern of a delimiter line from i: [-]{3,} first, then the rest up to
\* the end of the line.
DelimEnd(s, i) ==
    IF i + 2 <= Len(s) /\ AllDash(s, i, i + 2)
    THEN The({ DelimClose(s, i, e) : e \in {DotRunEnd(s, i)} })
    ELSE 0

NoMatch == [found |-> FALSE, cap |-> <<>>, end |-> 0]

\* (?:\r?\n[-]{3,}.*[-]{3,}\r?\n) after a capture that spans d1..t-1.
MatchClosing(s, d1, t) ==
    LET r == IF t <= Len(s) /\ s[t] = CR THEN t + 1 ELSE t
    IN  IF r <= Len(s) /\ s[r] = LF
        THEN The({ IF d2 = 0 THEN NoMatch
                   ELSE [found |-> TRUE, cap |-> SubSeq(s, d1, t - 1), end |-> d2] :
                   d2 \in {DelimEnd(s, r + 1)} })
        ELSE NoMatch

\* ([\w\-.=]+) from d1: greedy, and \r or \n must follow, so the longest run;
\* `+` needs one character at least.
MatchCapture(s, d1) ==
    IF d1 = 0 THEN NoMatch
    ELSE The({ IF t > d1 THEN MatchClosing(s, d1, t) ELSE NoMatch :
               t \in {TokenRunEnd(s, d1)} })

\* (?:[-]{3,}.*[-]{3,}\r?\n) from p, then the rest.
MatchOpening(s, p) == The({ MatchCapture(s, d1) : d1 \in {DelimEnd(s, p)} })

\* The whole pattern anchored at i:
\*   \s* (delimiter) ([\w\-.=]+) (\r?\n delimiter)
\* \s* is greedy and a dash must follow it: it takes its longest run.
MatchAt(s, i) == The({ MatchOpening(s, p) : p \in {SpaceRunEnd(s, i)} })

\* Leftmost match at or after position i (an unanchored search): the match
\* at the least position where the pattern matches.
FindFrom(s, i) ==
    IF \E k \in i..Len(s) : MatchAt(s, k).found
    THEN MatchAt(s, CHOOSE k \in i..Len(s) :
                        /\ MatchAt(s, k).found
                        /\ \A j \in i..(k - 1) : ~MatchAt(s, j).found)
    ELSE NoMatch

\* USER_CONFIG_RE.captures_iter(contents).nth(n): the iterator yields the
\* successive non-overlapping matches, each search starting where the
\* previous match ended; nth(n) skips n of them and yields the next.
RECURSIVE captures_iter_nth(_, _, _)
captures_iter_nth(s, i, n) ==
    The({ IF ~m.found THEN NoMatch
          ELSE IF n = 0 THEN m
          ELSE The({ captures_iter_nth(s, j, k) : j \in {m.end}, k \in {n - 1} }) :
          m \in {FindFrom(s, i)} })

None == [some |-> FALSE, val |-> <<>>]
Some(v) == [some |-> TRUE, val |-> v]

\* let capture = USER_CONFIG_RE.captures_iter(contents).next()?;
\* Some(SecureString::from(capture[1].to_string()))
parse_decorated_jwt(s) ==
    The({ IF m.found THEN Some(m.cap) ELSE None :
          m \in {captures_iter_nth(s, 1, 0)} })

\* let capture = USER_CONFIG_RE.captures_iter(contents).nth(1)?;
\* Some(SecureString::from(capture[1].to_string()))
parse_decorated_nkey(s) ==
    The({ IF m.found THEN Some(m.cap) ELSE None :
          m \in {captures_iter_nth(s, 1, 1)} })

----------------------------------------------------------------------------
(* std::str helpers used by load_nk. *)

\* str::lines(): pieces between \n, a \r right before the \n stripped, no
\* piece after a final \n.
RECURSIVE LinesFrom(_, _)
LinesFrom(s, i) ==
    IF i > Len(s) THEN <<>>
    ELSE LET e    == DotRunEnd(s, i)
             raw  == SubSeq(s, i, e - 1)
             line == IF e <= Len(s) /\ Len(raw) > 0 /\ raw[Len(raw)] = CR
                     THEN SubSeq(raw, 1, Len(raw) - 1) ELSE raw
         IN  <<line>> \o LinesFrom(s, e + 1)

lines(s) == LinesFrom(s, 1)

RECURSIVE trim_start(_)
trim_start(l) ==
    IF Len(l) > 0 /\ IsSpace(l[1]) THEN trim_start(Tail(l)) ELSE l

RECURSIVE trim_end(_)
trim_end(l) ==
    IF Len(l) > 0 /\ IsSpace(l[Len(l)])
    THEN trim_end(SubSeq(l, 1, Len(l) - 1)) ELSE l

\* str::trim(): leading and trailing White_Space removed.
MutTrimStartOnly(l) == trim_start(l)

trim(l) == trim_end(trim_start(l))

starts_with(l, p) == Len(l) >= Len(p) /\ SubSeq(l, 1, Len(p)) = p

\* The condition of the `if` in load_nk.
MutHasSeedPrefixAnywhere(l) ==
    \E k \in 1..Len(l) : starts_with(SubSeq(l, k, Len(l)), <<"S", "U">>)

HasSeedPrefix(l) ==
    \/ starts_with(l, <<"S", "O">>)
    \/ starts_with(l, <<"S", "A">>)
    \/ starts_with(l, <<"S", "U">>)

----------------------------------------------------------------------------
(* Results and the trusted primitives. *)

NoKey == [kind |-> "", seed |-> <<>>, priv |-> FALSE]

\* io::Result: Ok carries the returned SecureString (`text`: the JWT of
\* load_creds, the encoded signature of sign_nonce) and the KeyPair.
Ok(text, kp) == [ok |-> TRUE, text |-> text, kp |-> kp, err |-> ""]
Err(e) == [ok |-> FALSE, text |-> <<>>, kp |-> NoKey, err |-> e]
NoResult == [ok |-> FALSE, text |-> <<>>, kp |-> NoKey, err |-> "pending"]

MissingToken == "cannot parse user JWT from the credentials file"
MissingSeed == "cannot parse nkey from the credentials file"
NoSeedFound == "no nkey seed found"
InvalidSeed == "invalid seed"
FileUnreadable == "file unreadable"
SigningFailed == "signing failed"

\* KeyPair::from_seed of the nkeys crate, as a stand-in with the same shape:
\* a seed decodes when it is 'S', a key type letter and a body whose check
\* character is right (here: a one-character body "a").  The key pair
\* remembers the seed it came from.
from_seed(s) ==
    IF Len(s) = 3 /\ s[1] = "S" /\ s[2] \in {"O", "A", "U"} /\ s[3] = "a"
    THEN Ok(<<>>, [kind |-> s[2], seed |-> s, priv |-> TRUE])
    ELSE Err(InvalidSeed)

\* KeyPair::sign of the nkeys crate, as a stand-in: it fails on a key pair
\* without a private key, and otherwise yields bytes that depend on the key
\* and on every byte of the message and its position.
KeyByte(kp) == IF kp.kind = "U" THEN 251 ELSE IF kp.kind = "A" THEN 3 ELSE 0

sign(kp, msg) ==
    IF ~kp.priv THEN [ok |-> FALSE, sig |-> <<>>]
    ELSE [ok |-> TRUE,
          sig |-> <<KeyByte(kp)>> \o
                  [k \in 1..Len(msg) |-> (msg[k] + KeyByte(kp) + k) % 256]]

\* The URL-safe Base64 alphabet of RFC 4648, table 2 (value v at index v+1).
UrlSafeAlphabet ==
    << "A", "B", "C", "D", "E", "F", "G", "H", "I", "J", "K", "L", "M",
       "N", "O", "P", "Q", "R", "S", "T", "U", "V", "W", "X", "Y", "Z",
       "a", "b", "c", "d", "e", "f", "g", "h", "i", "j", "k", "l", "m",
       "n", "o", "p", "q", "r", "s", "t", "u", "v", "w", "x", "y", "z",
       "0", "1", "2", "3", "4", "5", "6", "7", "8", "9", "-", "_" >>

B64(v) == UrlSafeAlphabet[v + 1]

\* base64_url::encode: URL-safe alphabet, no padding.  Three bytes give four
\* characters; a last group of one byte gives two, of two bytes three.
RECURSIVE MutEncodePadded(_)
MutEncodePadded(b) ==
    IF Len(b) = 0 THEN <<>>
    ELSE IF Len(b) = 1
    THEN <<B64(b[1] \div 4), B64((b[1] % 4) * 16), "=", "=">>
    ELSE IF Len(b) = 2
    THEN <<B64(b[1] \div 4), B64((b[1] % 4) * 16 + b[2] \div 16),
           B64((b[2] % 16) * 4), "=">>
    ELSE <<B64(b[1] \div 4), B64((b[1] % 4) * 16 + b[2] \div 16),
           B64((b[2] % 16) * 4 + b[3] \div 64), B64(b[3] % 64)>>
         \o MutEncodePadded(SubSeq(b, 4, Len(b)))

RECURSIVE base64_url_encode(_)
base64_url_encode(b) ==
    IF Len(b) = 0 THEN <<>>
    ELSE IF Len(b) = 1
    THEN <<B64(b[1] \div 4), B64((b[1] % 4) * 16)>>
    ELSE IF Len(b) = 2
    THEN <<B64(b[1] \div 4), B64((b[1] % 4) * 16 + b[2] \div 16),
           B64((b[2] % 16) * 4)>>
    ELSE <<B64(b[1] \div 4), B64((b[1] % 4) * 16 + b[2] \div 16),
           B64((b[2] % 16) * 4 + b[3] \div 64), B64(b[3] % 64)>>
         \o base64_url_encode(SubSeq(b, 4, Len(b)))

\* Drop of SecureString (crate::SecureString): the storage of every buffer
\* dropped is overwritten, so dropped buffers are scrubbed buffers.
SecureStringDrop(bufs) == bufs

\* Leaving the function: every SecureString local the function still owns is
\* dropped.  `moved` are the locals moved out to the caller.
MutScopeExitKeepsJwt(moved) ==
    scrubbed \cup SecureStringDrop(created \ (moved \cup {"jwt"}))

ScopeExit(moved) == scrubbed \cup SecureStringDrop(created \ moved)

----------------------------------------------------------------------------
(* Documents and arguments the calls are run on. *)

RECURSIVE Flatten(_)
Flatten(ss) == IF ss = <<>> THEN <<>> ELSE Head(ss) \o Flatten(Tail(ss))

\* The lines joined by the line ending eol, the last line ended only if fin.
RECURSIVE Join(_, _, _)
Join(ls, eol, fin) ==
    IF ls = <<>> THEN <<>>
    ELSE Head(ls) \o (IF Len(ls) > 1 \/ fin THEN eol ELSE <<>>)
                  \o Join(Tail(ls), eol, fin)

SeqsUpTo(S, n) == UNION {[1..k -> S] : k \in 0..n}

EOLs == {<<LF>>, <<CR, LF>>}

DelimLabelled == <<"-", "-", "-", " ", "-", "-", "-">>
Dash6 == <<"-", "-", "-", "-", "-", "-">>
SeedGood == <<"S", "U", "a">>
SeedBad == <<"S", "U", "x">>
JwtText == <<"e", ".", "y">>
UniText == <<"U+00E9">>

Block(t) == <<DelimLabelled, t, DelimLabelled>>

\* A well-formed block with a seed, one with a token, one whose line holds a
\* non-ASCII letter, one whose line starts with a blank, and a banner line.
CredsSegs ==
    { Block(SeedGood), Block(JwtText), Block(UniText),
      Block(<<" ">> \o JwtText),
      <<<<"x", " ">> \o Dash6>> }

CredsDocs ==
    { Join(Flatten(ss), eol, fin) :
        ss \in SeqsUpTo(CredsSegs, MaxSegs), eol \in EOLs, fin \in BOOLEAN }

NkLineKinds ==
    { SeedGood, SeedBad,
      <<" ", "S", "A", "a", "\t">>,
      <<"#", " ">> \o SeedGood,
      <<>>,
      <<"x", "S", "O", "a">> }

NkDocs ==
    { Join(ls, eol, fin) :
        ls \in SeqsUpTo(NkLineKinds, MaxNkLines), eol \in EOLs, fin \in BOOLEAN }

ByteValues == {0, 1, 190, 255}

Nonces == SeqsUpTo(ByteValues, MaxNonce)

KeyPairs ==
    { from_seed(SeedGood).kp,
      from_seed(<<"S", "A", "a">>).kp,
      [kind |-> "U", seed |-> <<>>, priv |-> FALSE] }

----------------------------------------------------------------------------
(* Initial states. *)

ConcIdle ==
    /\ tpc = <<>> /\ tcall = <<>> /\ tre = <<>> /\ tjwt = <<>> /\ tres = <<>>
    /\ re = [state |-> "incomplete", value |-> "none", writes |-> 0]

SeqIdle ==
    /\ op = "none" /\ pc = "idle" /\ contents = <<>> /\ jwt = None
    /\ nkey = None /\ lineNo = 0 /\ result = NoResult
    /\ created = {} /\ scrubbed = {}
    /\ nonce = <<>> /\ key_pair = NoKey /\ sig = <<>>

CallStart(o, p) ==
    /\ op = o /\ pc = p /\ jwt = None /\ nkey = None
    /\ lineNo = 0 /\ result = NoResult /\ created = {} /\ scrubbed = {}
    /\ sig = <<>>

InitCreds ==
    /\ CallStart("load_creds", "creds_read")
    /\ contents \in CredsDocs /\ nonce = <<>> /\ key_pair = NoKey
    /\ ConcIdle

InitNk ==
    /\ CallStart("load_nk", "nk_read")
    /\ contents \in NkDocs /\ nonce = <<>> /\ key_pair = NoKey
    /\ ConcIdle

InitSign ==
    /\ CallStart("sign_nonce", "sign_sign")
    /\ contents = <<>> /\ nonce \in Nonces /\ key_pair \in KeyPairs
    /\ ConcIdle

Init == InitCreds \/ InitNk \/ InitSign

----------------------------------------------------------------------------
(* load_creds, one action per statement. *)

\* let contents = SecureString::from(fs::read_to_string(path)?);
LoadCredsRead ==
    /\ pc = "creds_read"
    /\ created' = created \cup {"contents"}
    /\ pc' = "creds_jwt"
    /\ UNCHANGED <<op, contents, jwt, nkey, lineNo, result, scrubbed>>
    /\ UNCHANGED <<signVars, concVars>>

\* fs::read_to_string(path)? fails: the error is returned before any buffer
\* is constructed.
LoadCredsReadFails ==
    /\ pc = "creds_read"
    /\ result' = Err(FileUnreadable)
    /\ scrubbed' = ScopeExit({})
    /\ pc' = "done"
    /\ UNCHANGED <<op, contents, jwt, nkey, lineNo, created>>
    /\ UNCHANGED <<signVars, concVars>>

\* let jwt = parse_decorated_jwt(&contents).ok_or_else(..)?;
LoadCredsJwt ==
    /\ pc = "creds_jwt"
    /\ \E j \in {parse_decorated_jwt(contents)} :
           IF j.some
           THEN /\ jwt' = j
                /\ created' = created \cup {"jwt"}
                /\ pc' = "creds_nkey"
                /\ UNCHANGED <<result, scrubbed>>
           ELSE /\ result' = Err(MissingToken)
                /\ scrubbed' = ScopeExit({})
                /\ pc' = "done"
                /\ UNCHANGED <<jwt, created>>
    /\ UNCHANGED <<op, contents, nkey, lineNo>>
    /\ UNCHANGED <<signVars, concVars>>

\* let nkey = parse_decorated_nkey(&contents).ok_or_else(..)?;
LoadCredsNkey ==
    /\ pc = "creds_nkey"
    /\ \E n \in {parse_decorated_nkey(contents)} :
           IF n.some
           THEN /\ nkey' = n
                /\ created' = created \cup {"nkey"}
                /\ pc' = "creds_seed"
                /\ UNCHANGED <<result, scrubbed>>
           ELSE /\ result' = Err(MissingSeed)
                /\ scrubbed' = ScopeExit({})
                /\ pc' = "done"
                /\ UNCHANGED <<nkey, created>>
    /\ UNCHANGED <<op, contents, jwt, lineNo>>
    /\ UNCHANGED <<signVars, concVars>>

\* let kp = KeyPair::from_seed(&nkey).map_err(..)?;  Ok((jwt, kp))
LoadCredsFromSeed ==
    /\ pc = "creds_seed"
    /\ \E kp \in {from_seed(nkey.val)} :
           IF kp.ok
           THEN /\ result' = Ok(jwt.val, kp.kp)
                /\ scrubbed' = ScopeExit({"jwt"})
           ELSE /\ result' = Err(kp.err)
                /\ scrubbed' = ScopeExit({})
    /\ pc' = "done"
    /\ UNCHANGED <<op, contents, jwt, nkey, lineNo, created>>
    /\ UNCHANGED <<signVars, concVars>>

----------------------------------------------------------------------------
(* load_nk: the read, then one action per turn of the loop. *)

\* let contents = SecureString::from(fs::read_to_string(path)?);
LoadNkRead ==
    /\ pc = "nk_read"
    /\ created' = created \cup {"contents"}
    /\ lineNo' = 1
    /\ pc' = "nk_loop"
    /\ UNCHANGED <<op, contents, jwt, nkey, result, scrubbed>>
    /\ UNCHANGED <<signVars, concVars>>

LoadNkReadFails ==
    /\ pc = "nk_read"
    /\ result' = Err(FileUnreadable)
    /\ scrubbed' = ScopeExit({})
    /\ pc' = "done"
    /\ UNCHANGED <<op, contents, jwt, nkey, lineNo, created>>
    /\ UNCHANGED <<signVars, concVars>>

\* for line in contents.lines() { let line = line.trim(); if .. { return .. } }
LoadNkLine ==
    /\ pc = "nk_loop"
    /\ lineNo <= Len(lines(contents))
    /\ \E line \in {trim(lines(contents)[lineNo])} :
           IF HasSeedPrefix(line)
           THEN /\ result' = from_seed(line)
                /\ scrubbed' = ScopeExit({})
                /\ pc' = "done"
                /\ UNCHANGED lineNo
           ELSE /\ lineNo' = lineNo + 1
                /\ UNCHANGED <<pc, result, scrubbed>>
    /\ UNCHANGED <<op, contents, jwt, nkey, created>>
    /\ UNCHANGED <<signVars, concVars>>

\* The loop ran out of lines: Err("no nkey seed found").
LoadNkNoSeed ==
    /\ pc = "nk_loop"
    /\ lineNo > Len(lines(contents))
    /\ result' = Err(NoSeedFound)
    /\ scrubbed' = ScopeExit({})
    /\ pc' = "done"
    /\ UNCHANGED <<op, contents, jwt, nkey, lineNo, created>>
    /\ UNCHANGED <<signVars, concVars>>

----------------------------------------------------------------------------
(* sign_nonce. *)

\* let sig = key_pair.sign(nonce).map_err(..)?;
SignNonceSign ==
    /\ pc = "sign_sign"
    /\ \E r \in {sign(key_pair, nonce)} :
           IF r.ok
           THEN /\ sig' = r.sig
                /\ pc' = "sign_encode"
                /\ UNCHANGED <<result, scrubbed>>
           ELSE /\ result' = Err(SigningFailed)
                /\ scrubbed' = ScopeExit({})
                /\ pc' = "done"
                /\ UNCHANGED sig
    /\ UNCHANGED <<op, contents, jwt, nkey, lineNo, created, nonce, key_pair>>
    /\ UNCHANGED concVars

\* Ok(SecureString::from(base64_url::encode(&sig)))
SignNonceEncode ==
    /\ pc = "sign_encode"
    /\ result' = Ok(base64_url_encode(sig), NoKey)
    /\ created' = created \cup {"encoded"}
    /\ scrubbed' = ScopeExit({"encoded"})
    /\ pc' = "done"
    /\ UNCHANGED <<op, contents, jwt, nkey, lineNo, signVars>>
    /\ UNCHANGED concVars

Next ==
    \/ LoadCredsRead
    \/ LoadCredsReadFails
    \/ LoadCredsJwt
    \/ LoadCredsNkey
    \/ LoadCredsFromSeed
    \/ LoadNkRead
    \/ LoadNkReadFails
    \/ LoadNkLine
    \/ LoadNkNoSeed
    \/ SignNonceSign
    \/ SignNonceEncode

Spec == Init /\ [][Next]_vars

----------------------------------------------------------------------------
(* Concurrent callers.  Each thread runs one call on arguments of its own;   *)
(* the only thing the threads share is the cell behind USER_CONFIG_RE, a     *)
(* once_cell::sync::Lazy: a state word (incomplete, running, complete) and   *)
(* the slot the compiled pattern is written to.                              *)

Threads == 1..NThreads

\* load_nk as one step: the first line whose trimmed text has a seed prefix.
RECURSIVE LoadNkFrom(_, _)
LoadNkFrom(ls, k) ==
    IF k > Len(ls) THEN Err(NoSeedFound)
    ELSE The({ IF HasSeedPrefix(line) THEN from_seed(line)
               ELSE LoadNkFrom(ls, k + 1) :
               line \in {trim(ls[k])} })

LoadNkValue(s) == The({ LoadNkFrom(ls, 1) : ls \in {lines(s)} })

\* sign_nonce as one step.
SignNonceValue(kp, msg) ==
    The({ IF r.ok THEN Ok(base64_url_encode(r.sig), NoKey)
          ELSE Err(SigningFailed) :
          r \in {sign(kp, msg)} })

ConcDocTwoBlocks == Join(Flatten(<<Block(JwtText), Block(SeedGood)>>), <<LF>>, TRUE)
ConcDocOneBlock == Join(Flatten(<<Block(SeedGood)>>), <<LF>>, TRUE)
ConcDocSeed == Join(<<<<"#", " ">>, SeedGood>>, <<LF>>, TRUE)

ConcCalls ==
    { [op |-> "load_creds", doc |-> ConcDocTwoBlocks, msg |-> <<>>, kp |-> NoKey],
      [op |-> "load_creds", doc |-> ConcDocOneBlock, msg |-> <<>>, kp |-> NoKey],
      [op |-> "load_nk", doc |-> ConcDocSeed, msg |-> <<>>, kp |-> NoKey],
      [op |-> "sign_nonce", doc |-> <<>>, msg |-> <<1, 255>>,
       kp |-> from_seed(SeedGood).kp] }

At(stmt, step) == [stmt |-> stmt, step |-> step]

InitConc ==
    /\ SeqIdle
    /\ tcall \in [Threads -> ConcCalls]
    /\ tpc = [t \in Threads |->
                IF tcall[t].op = "load_creds" THEN At("jwt", "force")
                ELSE At(tcall[t].op, "call")]
    /\ tre = [t \in Threads |-> "unused"]
    /\ tjwt = [t \in Threads |-> None]
    /\ tres = [t \in Threads |-> NoResult]
    /\ re = [state |-> "incomplete", value |-> "none", writes |-> 0]

\* Lazy::force, slow path: the caller that moves the state word from
\* incomplete to running (one compare-and-swap) is the one that initialises.
MutMayClaimWhileRunning == re.state # "complete"

MayClaim == re.state = "incomplete"

\* Lazy::force, fast path: the value is handed out once the state word is
\* complete; a caller that finds it running waits.
MayUse == re.state = "complete"

ForceClaim(t) ==
    /\ tpc[t].step = "force"
    /\ MayClaim
    /\ re' = [re EXCEPT !.state = "running"]
    /\ tpc' = [tpc EXCEPT ![t].step = "init"]
    /\ UNCHANGED <<tcall, tre, tjwt, tres, seqVars, signVars>>

\* The closure: Regex::new(..).unwrap(), written to the slot.
ForceInit(t) ==
    /\ tpc[t].step = "init"
    /\ re' = [re EXCEPT !.value = "compiled", !.writes = @ + 1]
    /\ tpc' = [tpc EXCEPT ![t].step = "publish"]
    /\ UNCHANGED <<tcall, tre, tjwt, tres, seqVars, signVars>>

\* The state word is set to complete and the waiters are woken.
ForcePublish(t) ==
    /\ tpc[t].step = "publish"
    /\ re' = [re EXCEPT !.state = "complete"]
    /\ tpc' = [tpc EXCEPT ![t].step = "force"]
    /\ UNCHANGED <<tcall, tre, tjwt, tres, seqVars, signVars>>

\* The deref of USER_CONFIG_RE returns the value in the slot.
ForceUse(t) ==
    /\ tpc[t].step = "force"
    /\ MayUse
    /\ tre' = [tre EXCEPT ![t] = re.value]
    /\ tpc' = [tpc EXCEPT ![t].step = "match"]
    /\ UNCHANGED <<tcall, tjwt, tres, re, seqVars, signVars>>

\* What a search with the value the thread obtained yields: the pattern's
\* matches when the value is the compiled pattern, nothing otherwise.
WithPattern(t, found) == IF tre[t] = "compiled" THEN found ELSE None

\* let jwt = parse_decorated_jwt(&contents).ok_or_else(..)?;
ConcJwt(t) ==
    /\ tpc[t] = At("jwt", "match")
    /\ \E j \in {WithPattern(t, parse_decorated_jwt(tcall[t].doc))} :
           IF j.some
           THEN /\ tjwt' = [tjwt EXCEPT ![t] = j]
                /\ tpc' = [tpc EXCEPT ![t] = At("nkey", "force")]
                /\ UNCHANGED tres
           ELSE /\ tres' = [tres EXCEPT ![t] = Err(MissingToken)]
                /\ tpc' = [tpc EXCEPT ![t] = At("jwt", "done")]
                /\ UNCHANGED tjwt
    /\ UNCHANGED <<tcall, tre, re, seqVars, signVars>>

\* let nkey = parse_decorated_nkey(&contents).ok_or_else(..)?;
\* let kp = KeyPair::from_seed(&nkey).map_err(..)?;  Ok((jwt, kp))
ConcNkey(t) ==
    /\ tpc[t] = At("nkey", "match")
    /\ \E n \in {WithPattern(t, parse_decorated_nkey(tcall[t].doc))} :
           IF ~n.some
           THEN tres' = [tres EXCEPT ![t] = Err(MissingSeed)]
           ELSE \E kp \in {from_seed(n.val)} :
                    IF kp.ok
                    THEN tres' = [tres EXCEPT ![t] = Ok(tjwt[t].val, kp.kp)]
                    ELSE tres' = [tres EXCEPT ![t] = Err(kp.err)]
    /\ tpc' = [tpc EXCEPT ![t] = At("nkey", "done")]
    /\ UNCHANGED <<tcall, tre, tjwt, re, seqVars, signVars>>

\* load_nk: no use of the pattern.
ConcLoadNk(t) ==
    /\ tpc[t] = At("load_nk", "call")
    /\ tres' = [tres EXCEPT ![t] = LoadNkValue(tcall[t].doc)]
    /\ tpc' = [tpc EXCEPT ![t] = At("load_nk", "done")]
    /\ UNCHANGED <<tcall, tre, tjwt, re, seqVars, signVars>>

\* sign_nonce: no use of the pattern.
ConcSignNonce(t) ==
    /\ tpc[t] = At("sign_nonce", "call")
    /\ tres' = [tres EXCEPT ![t] = SignNonceValue(tcall[t].kp, tcall[t].msg)]
    /\ tpc' = [tpc EXCEPT ![t] = At("sign_nonce", "done")]
    /\ UNCHANGED <<tcall, tre, tjwt, re, seqVars, signVars>>

NextConc ==
    \E t \in Threads :
        \/ ForceClaim(t)
        \/ ForceInit(t)
        \/ ForcePublish(t)
        \/ ForceUse(t)
        \/ ConcJwt(t)
        \/ ConcNkey(t)
        \/ ConcLoadNk(t)
        \/ ConcSignNonce(t)

SpecConc == InitConc /\ [][NextConc]_vars

----------------------------------------------------------------------------
(* The document format as section 3 of the specification words it, line by  *)
(* line: what the properties below mean by a decorated block.               *)

AsciiTokenChars == AsciiWordChars \cup {DASH, ".", "="}

\* A delimiter line: three or more dashes, any text, three or more dashes.
IsDelimLine(l) ==
    /\ Len(l) >= 6
    /\ \A k \in 1..3 : l[k] = DASH
    /\ \A k \in Len(l) - 2..Len(l) : l[k] = DASH

\* One line of token characters [A-Za-z0-9_.=-]+.
IsTokenLine(l) == Len(l) >= 1 /\ \A k \in 1..Len(l) : l[k] \in AsciiTokenChars

\* The decorated blocks of the lines ls from line i on, in document order:
\* the token of each and the number of its closing delimiter line.
RECURSIVE BlocksFrom(_, _)
BlocksFrom(ls, i) ==
    IF i + 2 > Len(ls) THEN <<>>
    ELSE IF IsDelimLine(ls[i]) /\ IsTokenLine(ls[i + 1]) /\ IsDelimLine(ls[i + 2])
    THEN <<[tok |-> ls[i + 1], last |-> i + 2]>> \o BlocksFrom(ls, i + 3)
    ELSE BlocksFrom(ls, i + 1)

DocBlocks(s) == The({ BlocksFrom(ls, 1) : ls \in {lines(s)} })

\* The position of the n-th \n of s (Len(s) when s has fewer).
RECURSIVE NthLineEnd(_, _, _)
NthLineEnd(s, n, i) ==
    IF i > Len(s) THEN Len(s)
    ELSE IF s[i] = LF THEN (IF n = 1 THEN i ELSE NthLineEnd(s, n - 1, i + 1))
    ELSE NthLineEnd(s, n, i + 1)

\* s cut after its n-th line, the line ending kept.
TruncateAfterLine(s, n) == SubSeq(s, 1, NthLineEnd(s, n, 1))

\* What load_creds returns on the text s once it is read: the three
\* statements of its body in order.
LoadCredsValue(s) ==
    The({ IF ~j.some THEN Err(MissingToken)
          ELSE The({ IF ~n.some THEN Err(MissingSeed)
                     ELSE The({ IF kp.ok THEN Ok(j.val, kp.kp) ELSE Err(kp.err) :
                                kp \in {from_seed(n.val)} }) :
                     n \in {parse_decorated_nkey(s)} }) :
          j \in {parse_decorated_jwt(s)} })

CredsDone == op = "load_creds" /\ pc = "done" /\ result.err # FileUnreadable

(* C1: for every combined document with exactly two well-formed decorated
   blocks whose second block holds a seed that decodes, load_creds succeeds
   and returns the inner text of the first block as the token and the
   key pair decoded from the inner text of the second block. *)
C1_TwoBlocksGiveTokenAndKey ==
    CredsDone =>
        \A bs \in {DocBlocks(contents)} :
            (Len(bs) = 2 /\ from_seed(bs[2].tok).ok)
                => result = Ok(bs[1].tok, from_seed(bs[2].tok).kp)

(* C2: a document with no decorated block fails with the missing-token
   error, a document with exactly one fails with the missing-seed error
   (also when the block holds a valid seed). *)
C2_ZeroOrOneBlockErrors ==
    CredsDone =>
        \A bs \in {DocBlocks(contents)} :
            /\ Len(bs) = 0 => result = Err(MissingToken)
            /\ Len(bs) = 1 => result = Err(MissingSeed)

(* C5: for every document with more than two decorated blocks, load_creds
   returns what it returns on the document cut after the second block: the
   token is the first block's text and the seed the second block's, whatever
   the later blocks hold. *)
C5_LaterBlocksIgnored ==
    CredsDone =>
        \A bs \in {DocBlocks(contents)} :
            Len(bs) > 2 =>
                /\ result = LoadCredsValue(TruncateAfterLine(contents, bs[2].last))
                /\ jwt = Some(bs[1].tok)
                /\ nkey = Some(bs[2].tok)

\* The frame part alone: the outcome is that of the document cut after its
\* second block.
C5_FrameOnly ==
    CredsDone =>
        \A bs \in {DocBlocks(contents)} :
            Len(bs) > 2 =>
                result = LoadCredsValue(TruncateAfterLine(contents, bs[2].last))

(* C9: the text captured from a decorated block is non-empty and made only
   of the token characters A-Z, a-z, 0-9, '_', '.', '-' and '='. *)
C9_CapturedAsciiTokenChars ==
    /\ jwt.some => IsTokenLine(jwt.val)
    /\ nkey.some => IsTokenLine(nkey.val)

HasNoSpace(t) == \A k \in 1..Len(t) : t[k] \notin WhiteSpaceChars

RECURSIVE ToCRLF(_)
ToCRLF(s) ==
    IF s = <<>> THEN <<>>
    ELSE (IF Head(s) = LF THEN <<CR, LF>> ELSE <<Head(s)>>) \o ToCRLF(Tail(s))

HasNoCR(s) == \A k \in 1..Len(s) : s[k] # CR

(* C10: the token and the seed text load_creds extracts hold no white space
   and no carriage return, and a document written with CRLF line endings
   yields the same token and seed text as the same document written with LF
   line endings. *)
C10_NoSpaceAndCrlfSameAsLf ==
    /\ jwt.some => HasNoSpace(jwt.val)
    /\ nkey.some => HasNoSpace(nkey.val)
    /\ (CredsDone /\ HasNoCR(contents)) =>
           \A crlf \in {ToCRLF(contents)} :
               /\ jwt = parse_decorated_jwt(crlf)
               /\ jwt.some => nkey = parse_decorated_nkey(crlf)

C10_Witness ==
    /\ CredsDone /\ result.ok /\ HasNoCR(contents)
    /\ \E k \in 1..Len(contents) : contents[k] = " "

----------------------------------------------------------------------------
(* load_nk. *)

NkDone == op = "load_nk" /\ pc = "done" /\ result.err # FileUnreadable

\* A line that, trimmed, starts with SO, SA or SU.
IsSeedLine(l) ==
    \E t \in {trim_end(trim_start(l))} :
        Len(t) >= 2 /\ t[1] = "S" /\ t[2] \in {"O", "A", "U"}

SeedLineNos(ls) == {k \in 1..Len(ls) : IsSeedLine(ls[k])}

Least(S) == CHOOSE k \in S : \A j \in S : k <= j

(* C3: the outcome of load_nk is that of decoding the first line, in
   document order, whose trimmed text starts with SO, SA or SU: the key pair
   of that full trimmed line, or the invalid-seed error; the lines before it
   and after it do not matter. *)
C3_FirstSeedLineDecides ==
    NkDone =>
        \A ls \in {lines(contents)} :
            \A M \in {SeedLineNos(ls)} :
                M # {} => result = from_seed(trim_end(trim_start(ls[Least(M)])))

C3_Witness ==
    /\ NkDone /\ result.ok
    /\ \E ls \in {lines(contents)} :
           \E M \in {SeedLineNos(ls)} :
               /\ Cardinality(M) >= 2 /\ Least(M) > 1
               /\ ls[Least(M)] # trim_end(trim_start(ls[Least(M)]))
               /\ \E k \in M : ~from_seed(trim_end(trim_start(ls[k]))).ok

(* C4: load_nk fails with the no-seed-found error if and only if no line of
   the document, trimmed, starts with SO, SA or SU. *)
C4_NoSeedFoundIffNoSeedLine ==
    NkDone => (result = Err(NoSeedFound) <=> SeedLineNos(lines(contents)) = {})

C4_Witness ==
    /\ NkDone /\ result = Err(NoSeedFound)
    /\ \E k \in 1..(Len(contents) - 1) : contents[k] = "S" /\ contents[k + 1] = "U"

----------------------------------------------------------------------------
(* Release of the secret buffers. *)

\* The buffers handed to the caller.
Returned ==
    IF result.ok /\ op = "load_creds" THEN {"jwt"}
    ELSE IF result.ok /\ op = "sign_nonce" THEN {"encoded"}
    ELSE {}

(* C6: when load_creds or load_nk returns, on every exit path, every secret
   buffer constructed during the call and not returned to the caller has
   been released; the returned one has not. *)
C6_UnreturnedBuffersScrubbed ==
    (pc = "done" /\ op \in {"load_creds", "load_nk"}) =>
        /\ Returned \subseteq created
        /\ scrubbed = created \ Returned

C6_Witness ==
    /\ pc = "done" /\ op = "load_creds" /\ result = Err(InvalidSeed)
    /\ created = {"contents", "jwt", "nkey"}

----------------------------------------------------------------------------
(* sign_nonce. *)

UrlSafeChars == {UrlSafeAlphabet[k] : k \in 1..64}

B64Value(c) == CHOOSE v \in 0..63 : UrlSafeAlphabet[v + 1] = c

\* URL-safe Base64 decoding of unpadded text.
RECURSIVE Base64UrlDecode(_)
Base64UrlDecode(t) ==
    IF Len(t) < 2 THEN <<>>
    ELSE LET v1 == B64Value(t[1])
             v2 == B64Value(t[2])
             b1 == v1 * 4 + v2 \div 16
         IN  IF Len(t) = 2 THEN <<b1>>
             ELSE LET v3 == B64Value(t[3])
                      b2 == (v2 % 16) * 16 + v3 \div 4
                  IN  IF Len(t) = 3 THEN <<b1, b2>>
                      ELSE <<b1, b2, (v3 % 4) * 64 + B64Value(t[4])>>
                           \o Base64UrlDecode(SubSeq(t, 5, Len(t)))

SignDone == op = "sign_nonce" /\ pc = "done"

(* C7: when the signing primitive succeeds, sign_nonce returns text made
   only of URL-safe Base64 characters, without '=', whose URL-safe Base64
   decoding is the raw signature of the unmodified challenge. *)
C7_SignatureEncodedUrlSafe ==
    SignDone =>
        \A r \in {sign(key_pair, nonce)} :
            r.ok =>
                /\ result.ok
                /\ \A k \in 1..Len(result.text) : result.text[k] \in UrlSafeChars
                /\ Base64UrlDecode(result.text) = r.sig

C7_Witness ==
    /\ SignDone /\ result.ok /\ Len(sig) % 3 = 2
    /\ \E k \in 1..Len(result.text) : result.text[k] = "-"
    /\ \E k \in 1..Len(result.text) : result.text[k] = "_"

----------------------------------------------------------------------------
(* Concurrent callers. *)

\* What the call returns when it runs alone.
AloneResult(c) ==
    IF c.op = "load_creds" THEN LoadCredsValue(c.doc)
    ELSE IF c.op = "load_nk" THEN LoadNkValue(c.doc)
    ELSE SignNonceValue(c.kp, c.msg)

(* C8: in every interleaving each call returns what it returns when run
   alone; the shared pattern is constructed once, a caller never obtains
   it before it is constructed, and it is not written again. *)
C8_ConcurrentCallsIndependent ==
    /\ \A t \in DOMAIN tpc :
           /\ tpc[t].step = "done" => tres[t] = AloneResult(tcall[t])
           /\ tre[t] \in {"unused", "compiled"}
    /\ re.writes <= 1
    /\ re.state = "complete" => (re.value = "compiled" /\ re.writes = 1)

C8_Witness ==
    /\ \A t \in DOMAIN tpc : tpc[t].step = "done" /\ tcall[t].op = "load_creds"
    /\ \E t \in DOMAIN tpc : tres[t].ok
    /\ DOMAIN tpc # {}

====
